---------------------------- MODULE Spec2Model ----------------------------
(***************************************************************************)
(* A model of nextera_utils: JWT issuance / validation / unverified        *)
(* extraction (src/src/jwt/mod.rs), password hashing and generation        *)
(* (src/src/password/mod.rs) and fixed-offset time conversion              *)
(* (src/src/time/mod.rs).                                                  *)
(*                                                                         *)
(* Text is modelled as TLA+ strings (a character is a string of length 1), *)
(* decoded binary data as sequences of bytes 0..255.                       *)
(***************************************************************************)
EXTENDS Integers, Sequences, FiniteSets, TLC

(***************************************************************************)
(* Characters and bytes                                                    *)
(***************************************************************************)

\* The printable ASCII characters of code 32 (space) to 95 (_), in order.
AsciiLow ==
  " !\"#$%&'()*+,-./0123456789:;<=>?@ABCDEFGHIJKLMNOPQRSTUVWXYZ[\\]^_"

\* The printable ASCII characters of code 97 (a) to 126 (~), in order. Code 96
\* (the grave accent) cannot be written in a TLA+ string and has no character
\* here.
AsciiHigh == "abcdefghijklmnopqrstuvwxyz{|}~"

\* The i-th character of a string.
Chr(s, i) == SubSeq(s, i, i)

\* The element of a set of one element: Only({e : x \in {v}}) is e with x
\* bound to v (a `let` whose value is computed once).
Only(S) == CHOOSE e \in S : TRUE

\* The positions of character c in string s.
Positions(s, c) == {i \in 1..Len(s) : Chr(s, i) = c}

\* Position (1-based) of the first character c in string s, 0 when absent.
IndexOf(s, c) ==
  LET P == Positions(s, c)
  IN  IF P = {} THEN 0 ELSE CHOOSE i \in P : \A j \in P : i <= j

\* The characters of a string, as a set.
CharsOf(s) == {Chr(s, i) : i \in 1..Len(s)}

\* The byte (code point) of every printable ASCII character.
ByteTable ==
  [c \in CharsOf(AsciiLow) \cup CharsOf(AsciiHigh) |->
     IF IndexOf(AsciiLow, c) > 0 THEN IndexOf(AsciiLow, c) + 31
     ELSE IndexOf(AsciiHigh, c) + 96]

\* The byte (code point) of a printable ASCII character.
ByteOf(c) == ByteTable[c]

\* str.as_bytes() for an ASCII string.
Bytes(s) == [i \in 1..Len(s) |-> ByteOf(Chr(s, i))]

\* The character of a printable ASCII byte.
CharOf(b) == IF b <= 95 THEN Chr(AsciiLow, b - 31) ELSE Chr(AsciiHigh, b - 96)

RECURSIVE Str(_)
\* The string of a sequence of printable ASCII bytes.
Str(bs) == IF bs = <<>> THEN "" ELSE CharOf(Head(bs)) \o Str(Tail(bs))

RECURSIVE Repeat(_, _)
\* The character c repeated n times.
Repeat(c, n) ==
  IF n <= 0 THEN ""
  ELSE IF n = 1 THEN c
  ELSE Repeat(c, n \div 2) \o Repeat(c, n - (n \div 2))

\* str::split(sep).collect(): the pieces of s between occurrences of the
\* character sep (always at least one piece, pieces may be empty).
Split(s, sep) ==
  LET P == Positions(s, sep)
      n == Cardinality(P)
      bound(k) ==
        IF k = 0 THEN 0
        ELSE IF k = n + 1 THEN Len(s) + 1
        ELSE CHOOSE i \in P : Cardinality({j \in P : j < i}) = k - 1
  IN  [k \in 1..(n + 1) |-> SubSeq(s, bound(k - 1) + 1, bound(k) - 1)]

\* Position of the last occurrence of character c in s, 0 when absent.
LastIndexOf(s, c) ==
  LET P == Positions(s, c)
  IN  IF P = {} THEN 0 ELSE CHOOSE i \in P : \A j \in P : i >= j

Digits == "0123456789"

RECURSIVE NatToStr(_)
\* Decimal rendering of a natural number.
NatToStr(n) ==
  IF n < 10 THEN Chr(Digits, n + 1)
  ELSE NatToStr(n \div 10) \o Chr(Digits, (n % 10) + 1)

\* Decimal rendering of an integer (itoa, as serde_json writes numbers).
IntToStr(n) == IF n < 0 THEN "-" \o NatToStr(0 - n) ELSE NatToStr(n)

(***************************************************************************)
(* Base64 (URL-safe alphabet)                                              *)
(***************************************************************************)

B64Alphabet == "ABCDEFGHIJKLMNOPQRSTUVWXYZabcdefghijklmnopqrstuvwxyz0123456789-_"

\* The 6-bit value of every base64url symbol.
B64Table == [c \in CharsOf(B64Alphabet) |-> IndexOf(B64Alphabet, c) - 1]

\* The 6-bit value of a base64url symbol, -1 for any other character.
B64Val(c) == IF c \in DOMAIN B64Table THEN B64Table[c] ELSE -1

B64Sym(v) == Chr(B64Alphabet, v + 1)

\* The symbols of a group of one, two or three bytes: two, three or four.
B64Group(bs) ==
  IF Len(bs) = 1 THEN
    B64Sym(bs[1] \div 4) \o B64Sym((bs[1] % 4) * 16)
  ELSE IF Len(bs) = 2 THEN
    B64Sym(bs[1] \div 4) \o B64Sym((bs[1] % 4) * 16 + bs[2] \div 16)
      \o B64Sym((bs[2] % 16) * 4)
  ELSE
    B64Sym(bs[1] \div 4) \o B64Sym((bs[1] % 4) * 16 + bs[2] \div 16)
      \o B64Sym((bs[2] % 16) * 4 + bs[3] \div 64) \o B64Sym(bs[3] % 64)

RECURSIVE B64EncodeNoPad(_)
\* URL_SAFE_NO_PAD.encode: three bytes to four symbols; a final group of one
\* byte gives two symbols, of two bytes three symbols; no '=' is written.
\* (The groups are taken half of them at a time.)
B64EncodeNoPad(bs) ==
  IF Len(bs) = 0 THEN ""
  ELSE IF Len(bs) <= 3 THEN B64Group(bs)
  ELSE LET half == 3 * (((Len(bs) + 2) \div 3) \div 2)
       IN  B64EncodeNoPad(SubSeq(bs, 1, half))
             \o B64EncodeNoPad(SubSeq(bs, half + 1, Len(bs)))

\* Number of trailing '=' characters of s.
TrailingPads(s) ==
  IF Len(s) >= 1 /\ Chr(s, Len(s)) = "="
    THEN IF Len(s) >= 2 /\ Chr(s, Len(s) - 1) = "="
           THEN IF Len(s) >= 3 /\ Chr(s, Len(s) - 2) = "=" THEN 3 ELSE 2
           ELSE 1
    ELSE 0

\* The bytes of a run of base64 symbols whose length is 0, 2 or 3 modulo 4.
B64Bytes(syms) ==
  LET v(i) == B64Val(Chr(syms, i))
      n == (Len(syms) * 3) \div 4
      byte(k) ==
        LET g == 4 * ((k - 1) \div 3)
            r == (k - 1) % 3
        IN  IF r = 0 THEN v(g + 1) * 4 + v(g + 2) \div 16
            ELSE IF r = 1 THEN (v(g + 2) % 16) * 16 + v(g + 3) \div 4
            ELSE (v(g + 3) % 4) * 64 + v(g + 4)
  IN  [k \in 1..n |-> byte(k)]

\* Whether the bits of the last symbol that belong to no byte are zero.
B64TrailingBitsZero(syms) ==
  LET last == B64Val(Chr(syms, Len(syms)))
  IN  CASE Len(syms) % 4 = 2 -> last % 16 = 0
        [] Len(syms) % 4 = 3 -> last % 4 = 0
        [] OTHER -> TRUE

\* general_purpose::URL_SAFE.decode (padding required and canonical, no
\* trailing bits): [ok, bytes].
B64DecodePadded(s) ==
  LET p == TrailingPads(s)
      syms == SubSeq(s, 1, Len(s) - p)
  IN  IF /\ Len(s) % 4 = 0
         /\ p <= 2
         /\ \A i \in 1..Len(syms) : B64Val(Chr(syms, i)) >= 0
         /\ B64TrailingBitsZero(syms)
        THEN [ok |-> TRUE, bytes |-> B64Bytes(syms)]
        ELSE [ok |-> FALSE, bytes |-> <<>>]

\* URL_SAFE_NO_PAD.decode (no '=' accepted, no trailing bits): [ok, bytes].
B64DecodeNoPad(s) ==
  IF /\ Len(s) % 4 # 1
     /\ \A i \in 1..Len(s) : B64Val(Chr(s, i)) >= 0
     /\ B64TrailingBitsZero(s)
    THEN [ok |-> TRUE, bytes |-> B64Bytes(s)]
    ELSE [ok |-> FALSE, bytes |-> <<>>]

(***************************************************************************)
(* UTF-8                                                                   *)
(***************************************************************************)

IsCont(b) == b \in 128..191

RECURSIVE IsUtf8(_)
\* String::from_utf8 succeeds: well-formed UTF-8 (no overlong forms, no
\* surrogates, nothing above U+10FFFF).
IsUtf8(bs) ==
  IF bs = <<>> THEN TRUE
  ELSE LET b == bs[1]
           n == Len(bs)
           rest(k) == SubSeq(bs, k + 1, n)
       IN  IF b < 128 THEN IsUtf8(rest(1))
           ELSE IF b \in 194..223 THEN
             n >= 2 /\ IsCont(bs[2]) /\ IsUtf8(rest(2))
           ELSE IF b \in 224..239 THEN
             /\ n >= 3
             /\ IsCont(bs[2]) /\ IsCont(bs[3])
             /\ (b = 224 => bs[2] >= 160)
             /\ (b = 237 => bs[2] <= 159)
             /\ IsUtf8(rest(3))
           ELSE IF b \in 240..244 THEN
             /\ n >= 4
             /\ IsCont(bs[2]) /\ IsCont(bs[3]) /\ IsCont(bs[4])
             /\ (b = 240 => bs[2] >= 144)
             /\ (b = 244 => bs[2] <= 143)
             /\ IsUtf8(rest(4))
           ELSE FALSE

(***************************************************************************)
(* JSON (serde_json) for the Claims struct                                 *)
(***************************************************************************)

\* src/src/jwt/mod.rs:10-16: struct Claims { sub: i32, org: i32, exp: usize,
\* suid: String, aud: String }. Strings of the struct are TLA+ strings.
NoClaims == [sub |-> 0, org |-> 0, exp |-> 0, suid |-> "", aud |-> ""]

I32Max == 2147483647

RECURSIVE JsonEscape(_)
\* serde_json's string escaping, for printable ASCII: '"' and '\' get a
\* backslash, everything else is written as it is.
JsonEscape(s) ==
  IF s = "" THEN ""
  ELSE (IF Head(s) \in {"\"", "\\"} THEN "\\" \o Head(s) ELSE Head(s))
         \o JsonEscape(Tail(s))

JsonString(s) == "\"" \o JsonEscape(s) \o "\""

\* serde_json::to_vec(&claims) with #[derive(Serialize)]: the fields in
\* declaration order, no whitespace.
ClaimsToJson(c) ==
  "{\"sub\":" \o IntToStr(c.sub) \o ",\"org\":" \o IntToStr(c.org)
    \o ",\"exp\":" \o IntToStr(c.exp) \o ",\"suid\":" \o JsonString(c.suid)
    \o ",\"aud\":" \o JsonString(c.aud) \o "}"

IsWs(b) == b \in {32, 9, 10, 13}

\* The byte at position i of bs, -1 past the end.
At(bs, i) == IF i \in 1..Len(bs) THEN bs[i] ELSE -1

\* The first position at or after i that holds no JSON whitespace.
SkipWs(bs, i) ==
  CHOOSE j \in i..(Len(bs) + 1) :
    /\ \A k \in i..(j - 1) : IsWs(bs[k])
    /\ ~IsWs(At(bs, j))

\* The first position at or after i that holds no decimal digit.
SkipDigits(bs, i) ==
  CHOOSE j \in i..(Len(bs) + 1) :
    /\ \A k \in i..(j - 1) : bs[k] \in 48..57
    /\ At(bs, j) \notin 48..57

RECURSIVE DigitsValue(_, _, _, _)
\* The value of the digits bs[i..j-1] with sign sg (1 or -1), accumulated on
\* the side of the sign.
DigitsValue(bs, i, j, sg) ==
  IF i >= j THEN 0
  ELSE DigitsValue(bs, i, j - 1, sg) * 10 + sg * (bs[j - 1] - 48)

\* Whether the digits bs[i..j-1] (no leading zero) with sign sg fit an i32.
FitsI32(bs, i, j, sg) ==
  \/ j - i < 10
  \/ /\ j - i = 10
     /\ LET high == DigitsValue(bs, i, j - 1, 1)
            last == bs[j - 1] - 48
        IN  \/ high < I32Max \div 10
            \/ high = I32Max \div 10 /\ last <= (IF sg = 1 THEN 7 ELSE 8)

\* A JSON number starting at i whose integer digits are bs[d0..d1-1], its
\* fraction ending before f1, its exponent digits bs[e0..e1-1] (f1 = d1 and
\* e1 = f1 when there is none): [ok, next, int, fits, val]. int: no fraction
\* and no exponent, and not "-0" (which serde_json reads as the float -0.0);
\* fits: the integer fits an i32 (val is 0 when it does not).
JsonNumberParts(bs, i, d0, d1, f1, e0, e1) ==
  LET sg == IF d0 > i THEN -1 ELSE 1
      wellFormed ==
        /\ d1 > d0 /\ (bs[d0] = 48 => d1 = d0 + 1)
        /\ (f1 > d1 => f1 > d1 + 1)
        /\ (e0 > f1 => e1 > e0)
      isInt == f1 = d1 /\ e0 = f1 /\ ~(sg = -1 /\ d1 = d0 + 1 /\ bs[d0] = 48)
  IN  IF wellFormed
        THEN [ok |-> TRUE, next |-> e1, int |-> isInt, fits |-> FitsI32(bs, d0, d1, sg),
              val |-> IF isInt /\ FitsI32(bs, d0, d1, sg)
                        THEN DigitsValue(bs, d0, d1, sg) ELSE 0]
        ELSE [ok |-> FALSE, next |-> i, int |-> FALSE, fits |-> FALSE, val |-> 0]

\* The end of the fraction that may start at d1 ('.' and digits).
FractionEnd(bs, d1) == IF At(bs, d1) = 46 THEN SkipDigits(bs, d1 + 1) ELSE d1

\* The first exponent digit of the exponent that may start at f1 ('e' or 'E'
\* and a sign), f1 when there is none.
ExponentStart(bs, f1) ==
  IF At(bs, f1) \in {69, 101}
    THEN (IF At(bs, f1 + 1) \in {43, 45} THEN f1 + 2 ELSE f1 + 1)
    ELSE f1

\* A JSON number starting at i: an optional '-', the integer digits, an
\* optional fraction, an optional exponent.
JsonNumber(bs, i) ==
  Only({Only({Only({Only({Only({
    JsonNumberParts(bs, i, d0, d1, f1, e0, e1)
    : e1 \in {IF e0 > f1 THEN SkipDigits(bs, e0) ELSE f1}})
    : e0 \in {ExponentStart(bs, f1)}})
    : f1 \in {FractionEnd(bs, d1)}})
    : d1 \in {SkipDigits(bs, d0)}})
    : d0 \in {IF At(bs, i) = 45 THEN i + 1 ELSE i}})

\* The character an escape letter stands for ("" for none). \b \f \n \r \t
\* stand for control characters, which have no character here: a string that
\* holds one, and a \u escape, are outside the model and read as malformed.
Unescape(b) ==
  CASE b = 34 -> "\""
    [] b = 92 -> "\\"
    [] b = 47 -> "/"
    [] OTHER -> ""

RECURSIVE JsonStringBody(_, _, _)
\* The rest of a JSON string whose opening quote has been read, from
\* position i, with the characters read so far: [ok, next, val].
JsonStringBody(bs, i, acc) ==
  IF At(bs, i) = 34 THEN [ok |-> TRUE, next |-> i + 1, val |-> acc]
  ELSE IF At(bs, i) = 92 /\ Unescape(At(bs, i + 1)) # ""
    THEN JsonStringBody(bs, i + 2, acc \o Unescape(At(bs, i + 1)))
  ELSE IF At(bs, i) \in 32..126 /\ At(bs, i) \notin {92, 96}
    THEN JsonStringBody(bs, i + 1, acc \o CharOf(bs[i]))
  ELSE [ok |-> FALSE, next |-> i, val |-> ""]

\* A JSON string starting at i: [ok, next, val].
JsonStr(bs, i) ==
  IF At(bs, i) = 34 THEN JsonStringBody(bs, i + 1, "")
  ELSE [ok |-> FALSE, next |-> i, val |-> ""]

\* Whether bs holds the bytes of the ASCII word w at position i.
HasWord(bs, i, w) ==
  /\ i + Len(w) - 1 <= Len(bs)
  /\ \A k \in 1..Len(w) : bs[i + k - 1] = ByteOf(Chr(w, k))

NoNumber == [ok |-> FALSE, next |-> 0, int |-> FALSE, fits |-> FALSE, val |-> 0]

StrScalar(r) == [ok |-> r.ok, next |-> r.next, kind |-> "str", num |-> NoNumber, str |-> r.val]

NumScalar(r) == [ok |-> r.ok, next |-> r.next, kind |-> "num", num |-> r, str |-> ""]

LitScalar(ok, next) == [ok |-> ok, next |-> next, kind |-> "lit", num |-> NoNumber, str |-> ""]

\* A JSON scalar starting at i, of any type: [ok, next, kind, num, str].
\* kind is "num", "str" or "lit" (true, false, null). Arrays and objects as
\* values are outside the model and read as malformed.
JsonScalar(bs, i) ==
  IF At(bs, i) = 34 THEN StrScalar(JsonStr(bs, i))
  ELSE IF At(bs, i) = 45 \/ At(bs, i) \in 48..57 THEN NumScalar(JsonNumber(bs, i))
  ELSE IF HasWord(bs, i, "true") \/ HasWord(bs, i, "null") THEN LitScalar(TRUE, i + 4)
  ELSE IF HasWord(bs, i, "false") THEN LitScalar(TRUE, i + 5)
  ELSE LitScalar(FALSE, i)

\* The fields of Claims, in declaration order.
ClaimsFields == <<"sub", "org", "exp", "suid", "aud">>

IsClaimsField(key) == \E n \in 1..Len(ClaimsFields) : ClaimsFields[n] = key

\* Whether the scalar v deserializes into field f of Claims: an i32 for sub
\* and org, a usize for exp (the model holds it up to I32Max), a String for
\* suid and aud.
FieldAccepts(f, v) ==
  CASE f \in {"sub", "org"} -> v.kind = "num" /\ v.num.int /\ v.num.fits
    [] f = "exp" -> v.kind = "num" /\ v.num.int /\ v.num.fits /\ v.num.val >= 0
    [] OTHER -> v.kind = "str"

\* Claims c with field f set from scalar v.
WithField(c, f, v) ==
  CASE f = "sub" -> [c EXCEPT !.sub = v.num.val]
    [] f = "org" -> [c EXCEPT !.org = v.num.val]
    [] f = "exp" -> [c EXCEPT !.exp = v.num.val]
    [] f = "suid" -> [c EXCEPT !.suid = v.str]
    [] OTHER -> [c EXCEPT !.aud = v.str]

JsonFail == [ok |-> FALSE, claims |-> NoClaims]

\* Nothing but whitespace from position i on.
OnlyWsFrom(bs, i) == SkipWs(bs, i) = Len(bs) + 1

RECURSIVE JsonMembers(_, _, _, _)

\* The object member with key `key` and value v, followed at position after
\* by ',' and more members or by '}' and the end: a field given twice, a
\* value of the wrong type and, at the end, a missing field are errors; other
\* keys are ignored.
JsonMember(bs, c, seen, key, v, after) ==
  IF ~v.ok THEN JsonFail
  ELSE IF IsClaimsField(key) /\ (key \in seen \/ ~FieldAccepts(key, v)) THEN JsonFail
  ELSE IF At(bs, after) = 44 THEN
    JsonMembers(bs, after + 1,
                IF IsClaimsField(key) THEN WithField(c, key, v) ELSE c,
                IF IsClaimsField(key) THEN seen \cup {key} ELSE seen)
  ELSE IF /\ At(bs, after) = 125
          /\ {ClaimsFields[n] : n \in 1..Len(ClaimsFields)} \subseteq seen \cup {key}
          /\ OnlyWsFrom(bs, after + 1)
    THEN [ok |-> TRUE, claims |-> IF IsClaimsField(key) THEN WithField(c, key, v) ELSE c]
  ELSE JsonFail

\* The members of an object from position i (a key, ':' and a value are
\* expected), into Claims: seen is the set of fields read so far:
\* [ok, claims].
JsonMembers(bs, i, c, seen) ==
  Only({
    IF ~k.ok \/ At(bs, SkipWs(bs, k.next)) # 58 THEN JsonFail
    ELSE Only({JsonMember(bs, c, seen, k.val, v, SkipWs(bs, v.next))
               : v \in {JsonScalar(bs, SkipWs(bs, SkipWs(bs, k.next) + 1))}})
    : k \in {JsonStr(bs, SkipWs(bs, i))}})

RECURSIVE JsonElements(_, _, _, _)

\* The array element v for field n, followed at position after by ',' and
\* more elements or by ']' and the end.
JsonElement(bs, c, n, v, after) ==
  IF n > Len(ClaimsFields) \/ ~v.ok THEN JsonFail
  ELSE IF ~FieldAccepts(ClaimsFields[n], v) THEN JsonFail
  ELSE IF At(bs, after) = 44
    THEN JsonElements(bs, after + 1, WithField(c, ClaimsFields[n], v), n + 1)
  ELSE IF At(bs, after) = 93 /\ n = Len(ClaimsFields) /\ OnlyWsFrom(bs, after + 1)
    THEN [ok |-> TRUE, claims |-> WithField(c, ClaimsFields[n], v)]
  ELSE JsonFail

\* The elements of an array from position i into Claims, field n next
\* (serde's visit_seq: the fields by position, exactly five): [ok, claims].
JsonElements(bs, i, c, n) ==
  Only({JsonElement(bs, c, n, v, SkipWs(bs, v.next))
        : v \in {JsonScalar(bs, SkipWs(bs, i))}})

\* serde_json::from_str::<Claims> from position i, the first that holds no
\* whitespace: an object by field name or an array by position.
ClaimsFromJsonAt(bs, i) ==
  IF At(bs, i) = 123 THEN
    IF At(bs, SkipWs(bs, i + 1)) = 125 THEN JsonFail
    ELSE JsonMembers(bs, i + 1, NoClaims, {})
  ELSE IF At(bs, i) = 91 THEN JsonElements(bs, i + 1, NoClaims, 1)
  ELSE JsonFail

\* serde_json::from_str::<Claims>: [ok, claims].
ClaimsFromJson(bs) == ClaimsFromJsonAt(bs, SkipWs(bs, 1))

(***************************************************************************)
(* jsonwebtoken: encode and decode with HS256                              *)
(***************************************************************************)

\* serde_json of Header::default(): typ "JWT", alg HS256.
HeaderJson == "{\"typ\":\"JWT\",\"alg\":\"HS256\"}"

RECURSIVE HmacKey(_)
\* The key HMAC works with (RFC 2104): the secret's bytes padded with zero
\* bytes to the 64-byte block of SHA-256, so secrets that differ only in trailing zero bytes are
\* one key. The model keeps the padded key by its bytes up to the last
\* non-zero one. (A secret longer than the block is hashed first: the model
\* holds none.)
HmacKey(key) ==
  IF key # <<>> /\ key[Len(key)] = 0 THEN HmacKey(SubSeq(key, 1, Len(key) - 1)) ELSE key

\* HMAC-SHA-256 as an ideal MAC of the padded key and the message: two tags
\* are equal exactly when padded key and message are (no collision, no tag
\* without the key). The tag is a byte string.
HmacSha256(key, msg) == <<Len(HmacKey(key))>> \o HmacKey(key) \o Bytes(msg)

\* crypto::sign for HS256: the base64url (unpadded) tag of the message.
Sign(message, secret) == B64EncodeNoPad(HmacSha256(secret, message))

\* jsonwebtoken::encode(&Header::default(), &claims, &EncodingKey::from_secret):
\* b64(header) "." b64(claims) "." signature over the first two.
Encode(claims, secret) ==
  Only({message \o "." \o Sign(message, secret) :
        message \in {B64EncodeNoPad(Bytes(HeaderJson)) \o "."
                       \o B64EncodeNoPad(Bytes(ClaimsToJson(claims)))}})

\* Validation::default().leeway, in seconds.
Leeway == 60

JwtErr(kind) == [ok |-> FALSE, err |-> kind, claims |-> NoClaims]

JwtOk(c) == [ok |-> TRUE, err |-> "", claims |-> c]

\* validate(): exp must not lie more than the leeway behind the clock, aud
\* must be the expected audience.
ValidateClaims(parsed, audience, nowSec) ==
  IF ~parsed.ok THEN JwtErr("Json")
  ELSE IF parsed.claims.exp < nowSec - Leeway THEN JwtErr("ExpiredSignature")
  ELSE IF parsed.claims.aud # audience THEN JwtErr("InvalidAudience")
  ELSE JwtOk(parsed.claims)

\* The payload of a token whose signature holds.
DecodePayload(body, audience, nowSec) ==
  IF ~body.ok THEN JwtErr("Base64")
  ELSE ValidateClaims(ClaimsFromJson(body.bytes), audience, nowSec)

\* verify_signature() on the parts of a token: the header must be the HS256
\* header (only Header::default() is modelled), the signature that of the
\* message under the secret.
DecodeParts(h, payload, signature, expected, audience, nowSec) ==
  IF ~h.ok THEN JwtErr("Base64")
  ELSE IF h.bytes # Bytes(HeaderJson) THEN JwtErr("InvalidAlgorithm")
  ELSE IF signature # expected THEN JwtErr("InvalidSignature")
  ELSE DecodePayload(B64DecodeNoPad(payload), audience, nowSec)

\* The token split at its last '.' (position d2) and the last '.' before it
\* (position d1): header "." payload "." signature.
DecodeSplit(token, d1, d2, secret, audience, nowSec) ==
  IF d2 = 0 \/ d1 = 0 THEN JwtErr("InvalidToken")
  ELSE DecodeParts(B64DecodeNoPad(SubSeq(token, 1, d1 - 1)),
                   SubSeq(token, d1 + 1, d2 - 1),
                   SubSeq(token, d2 + 1, Len(token)),
                   Sign(SubSeq(token, 1, d2 - 1), secret),
                   audience, nowSec)

\* jsonwebtoken::decode::<Claims> under Validation::default() with
\* set_audience(&[audience]), the clock reading nowSec whole seconds.
Decode(token, secret, audience, nowSec) ==
  Only({DecodeSplit(token, LastIndexOf(SubSeq(token, 1, d2 - 1), "."), d2,
                    secret, audience, nowSec)
        : d2 \in {LastIndexOf(token, ".")}})

(***************************************************************************)
(* src/src/jwt/mod.rs                                                      *)
(***************************************************************************)

\* Clock ticks per second: the clock is finer than the whole seconds of exp.
TicksPerSec == 2

\* Whole seconds since the epoch of a clock reading (timestamp()).
Timestamp(t) == t \div TicksPerSec

\* normalize_base64 as it would be if it added no padding.
normalize_base64_unpadded(input) == input

RECURSIVE normalize_base64(_)
\* '=' is pushed until the length is a multiple of four.
normalize_base64(input) ==
  IF Len(input) % 4 # 0 THEN normalize_base64(input \o "=") ELSE input

\* validate_jwt as it would be had it set no audience to check: the
\* audience the token carries is the one expected.
validate_jwt_any_audience(token, secret, audience, t) ==
  Decode(token, secret,
         IF Len(Split(token, ".")) = 3
           THEN ClaimsFromJson(B64DecodeNoPad(Split(token, ".")[2]).bytes).claims.aud
           ELSE audience,
         Timestamp(t))

\* validate_jwt as it would be with a leeway of zero: exp is compared with
\* the clock itself.
validate_jwt_no_leeway(token, secret, audience, t) ==
  Decode(token, secret, audience, Timestamp(t) + Leeway)

\* validate_jwt at clock reading t.
validate_jwt(token, secret, audience, t) ==
  Decode(token, secret, audience, Timestamp(t))

\* get_jwt_claims_from_token as it would be if it asked for at least two
\* parts instead of exactly three.
get_jwt_claims_lenient(token) ==
  Only({
    IF Len(parts) < 2 THEN JwtErr("Invalid token format")
    ELSE Only({
      IF ~payload.ok THEN JwtErr("Base64 decoding failed")
      ELSE IF ~IsUtf8(payload.bytes) THEN JwtErr("Invalid UTF-8 in payload")
      ELSE Only({
        IF ~parsed.ok THEN JwtErr("Failed to deserialize claims")
        ELSE JwtOk(parsed.claims)
        : parsed \in {ClaimsFromJson(payload.bytes)}})
      : payload \in {B64DecodePadded(normalize_base64(parts[2]))}})
    : parts \in {Split(token, ".")}})

\* get_jwt_claims_from_token: split on '.', exactly three parts, the middle
\* one padded, base64url-decoded, read as UTF-8 and deserialized.
get_jwt_claims_from_token(token) ==
  Only({
    IF Len(parts) # 3 THEN JwtErr("Invalid token format")
    ELSE Only({
      IF ~payload.ok THEN JwtErr("Base64 decoding failed")
      ELSE IF ~IsUtf8(payload.bytes) THEN JwtErr("Invalid UTF-8 in payload")
      ELSE Only({
        IF ~parsed.ok THEN JwtErr("Failed to deserialize claims")
        ELSE JwtOk(parsed.claims)
        : parsed \in {ClaimsFromJson(payload.bytes)}})
      : payload \in {B64DecodePadded(normalize_base64(parts[2]))}})
    : parts \in {Split(token, ".")}})

\* An extraction of the user id that returns the organization of the claims.
get_user_id_returns_org(token) ==
  Only({IF ~c.ok THEN c ELSE JwtOk([NoClaims EXCEPT !.sub = c.claims.org])
        : c \in {get_jwt_claims_from_token(token)}})

\* get_user_id_from_token: the same steps; Ok carries claims.sub only (the
\* result's claims hold sub and nothing else).
get_user_id_from_token(token) ==
  Only({
    IF Len(parts) # 3 THEN JwtErr("Invalid token format")
    ELSE Only({
      IF ~payload.ok THEN JwtErr("Base64 decoding failed")
      ELSE IF ~IsUtf8(payload.bytes) THEN JwtErr("Invalid UTF-8 in payload")
      ELSE Only({
        IF ~parsed.ok THEN JwtErr("Failed to deserialize claims")
        ELSE JwtOk([NoClaims EXCEPT !.sub = parsed.claims.sub])
        : parsed \in {ClaimsFromJson(payload.bytes)}})
      : payload \in {B64DecodePadded(normalize_base64(parts[2]))}})
    : parts \in {Split(token, ".")}})

\* generate_jwt as it would be with the subject and the organization taking
\* each other's place in the claims.
generate_jwt_swapped(user_id, org_id, secret, expires_in_sec, session_uuid, audience, t) ==
  [token |-> Encode([sub |-> org_id, org |-> user_id,
                     exp |-> Timestamp(t + expires_in_sec * TicksPerSec),
                     suid |-> session_uuid, aud |-> audience], secret),
   expires_at |-> t + expires_in_sec * TicksPerSec]

\* generate_jwt as it would be with exp rounded up to the next whole second.
generate_jwt_exp_rounded_up(user_id, org_id, secret, expires_in_sec, session_uuid, audience, t) ==
  [token |-> Encode([sub |-> user_id, org |-> org_id,
                     exp |-> Timestamp(t + expires_in_sec * TicksPerSec + TicksPerSec - 1),
                     suid |-> session_uuid, aud |-> audience], secret),
   expires_at |-> t + expires_in_sec * TicksPerSec]

\* generate_jwt at clock reading t: [token, expires_at] with expires_at the
\* clock reading plus the lifetime and exp its whole seconds.
generate_jwt(user_id, org_id, secret, expires_in_sec, session_uuid, audience, t) ==
  LET expire_datetime == t + expires_in_sec * TicksPerSec
      expire_timestamp == Timestamp(expire_datetime)
      claims == [sub |-> user_id, org |-> org_id, exp |-> expire_timestamp,
                 suid |-> session_uuid, aud |-> audience]
  IN  [token |-> Encode(claims, secret), expires_at |-> expire_datetime]

(***************************************************************************)
(* Password hashing: the argon2, password-hash and bcrypt crates           *)
(***************************************************************************)

HexDigits == "0123456789abcdef"

RECURSIVE Hex(_)
\* Bytes written as two hexadecimal digits each.
Hex(bs) ==
  IF Len(bs) = 0 THEN ""
  ELSE IF Len(bs) = 1
    THEN Chr(HexDigits, (bs[1] \div 16) + 1) \o Chr(HexDigits, (bs[1] % 16) + 1)
  ELSE Hex(SubSeq(bs, 1, Len(bs) \div 2)) \o Hex(SubSeq(bs, (Len(bs) \div 2) + 1, Len(bs)))

\* Whether every character of s is one of the characters of the string set.
AllIn(s, set) == CharsOf(s) \subseteq CharsOf(set)

LowerAlnum == "abcdefghijklmnopqrstuvwxyz0123456789"

\* The characters of a PHC value, salt or hash field (password-hash: Value).
PhcValueChars == "ABCDEFGHIJKLMNOPQRSTUVWXYZabcdefghijklmnopqrstuvwxyz0123456789/+.-"

\* Argon2::default(): Argon2id, version 0x13, Params::DEFAULT.
Argon2Ident == "argon2id"

Argon2Version == "19"

Argon2Params == "m=19456,t=2,p=1"

\* Argon2 as an ideal hash of its parameters, the salt and the whole
\* password: two digests are equal exactly when all of these are. The digest
\* is written as the hexadecimal of its input (a real one is 32 bytes in
\* base64).
Argon2Digest(ident, version, params, salt, password) ==
  Hex(Bytes(ident \o "$" \o version \o "$" \o params \o "$" \o salt \o "$" \o password))

\* argon2.hash_password(password, &salt).to_string(): the PHC string
\* $argon2id$v=19$m=19456,t=2,p=1$salt$digest.
argon2_hash_password(password, salt) ==
  "$" \o Argon2Ident \o "$v=" \o Argon2Version \o "$" \o Argon2Params \o "$" \o salt
    \o "$" \o Argon2Digest(Argon2Ident, Argon2Version, Argon2Params, salt, password)

\* A PHC string that does not parse.
PhcError ==
  [ok |-> FALSE, algorithm |-> "", version |-> "", params |-> "",
   hasSalt |-> FALSE, salt |-> "", hasHash |-> FALSE, hash |-> ""]

\* Ident::try_from: 1 to 32 characters of a-z, 0-9 and '-'.
IsPhcIdent(f) == Len(f) \in 1..32 /\ AllIn(f, LowerAlnum \o "-")

\* One name=value pair of a ParamsString.
IsPhcParam(pair) ==
  /\ Cardinality(Positions(pair, "=")) = 1
  /\ IsPhcIdent(SubSeq(pair, 1, IndexOf(pair, "=") - 1))
  /\ Len(pair) > IndexOf(pair, "=")
  /\ AllIn(SubSeq(pair, IndexOf(pair, "=") + 1, Len(pair)), PhcValueChars)

\* ParamsString::from_str: name=value pairs separated by ','.
PhcParamsOk(f) == \A k \in 1..Len(Split(f, ",")) : IsPhcParam(Split(f, ",")[k])

\* Salt::try_from: 4 to 64 characters of the value alphabet.
PhcSaltOk(f) == Len(f) \in 4..64 /\ AllIn(f, PhcValueChars)

\* Output::decode: base64 of at least 10 bytes. The model writes a digest as
\* the hexadecimal of its input, so it puts no upper limit on the length.
PhcOutputOk(f) == Len(f) >= 14 /\ AllIn(f, PhcValueChars) /\ AllIn(f, B64Alphabet \o "+/")

\* The fields after the salt: an optional hash, then nothing.
PhcHash(fields, i, r) ==
  IF i > Len(fields) THEN r
  ELSE IF ~PhcOutputOk(fields[i]) \/ i < Len(fields) THEN PhcError
  ELSE [r EXCEPT !.hasHash = TRUE, !.hash = fields[i]]

\* The fields after the parameters: an optional salt, then the hash.
PhcSalt(fields, i, r) ==
  IF i > Len(fields) THEN r
  ELSE IF ~PhcSaltOk(fields[i]) THEN PhcError
  ELSE PhcHash(fields, i + 1, [r EXCEPT !.hasSalt = TRUE, !.salt = fields[i]])

\* The fields after the version: optional parameters (a field with '='),
\* then the salt.
PhcParams(fields, i, r) ==
  IF i <= Len(fields) /\ Positions(fields[i], "=") # {}
    THEN (IF PhcParamsOk(fields[i])
            THEN PhcSalt(fields, i + 1, [r EXCEPT !.params = fields[i]])
            ELSE PhcError)
    ELSE PhcSalt(fields, i, r)

\* The fields after the algorithm: an optional version (v= and a decimal,
\* a field without ','), then the parameters.
PhcVersion(fields, r) ==
  IF /\ 3 <= Len(fields)
     /\ SubSeq(fields[3], 1, 2) = "v="
     /\ Positions(fields[3], ",") = {}
    THEN (IF Len(fields[3]) > 2 /\ AllIn(SubSeq(fields[3], 3, Len(fields[3])), Digits)
            THEN PhcParams(fields, 4,
                           [r EXCEPT !.version = SubSeq(fields[3], 3, Len(fields[3]))])
            ELSE PhcError)
    ELSE PhcParams(fields, 3, r)

\* The fields of a PHC string split on '$': an empty first field, then the
\* algorithm identifier.
PhcFields(fields) ==
  IF fields[1] # "" \/ Len(fields) < 2 THEN PhcError
  ELSE IF ~IsPhcIdent(fields[2]) THEN PhcError
  ELSE PhcVersion(fields, [PhcError EXCEPT !.ok = TRUE, !.algorithm = fields[2]])

\* PasswordHash::new(s): the parse of a PHC string.
PasswordHashNew(s) == IF s = "" THEN PhcError ELSE PhcFields(Split(s, "$"))

\* Argon2's PasswordVerifier::verify_password(..).is_ok(): salt and hash must
\* be present, the algorithm one of Argon2's, the version 0x10 or 0x13 (0x13
\* when absent), and the digest recomputed from the record's own parameters
\* and salt must be the record's.
Argon2Verifies(password, parsed) ==
  /\ parsed.hasSalt /\ parsed.hasHash
  /\ parsed.algorithm \in {"argon2d", "argon2i", "argon2id"}
  /\ parsed.version \in {"", "16", "19"}
  /\ parsed.hash = Argon2Digest(parsed.algorithm,
                                IF parsed.version = "" THEN Argon2Version ELSE parsed.version,
                                IF parsed.params = "" THEN Argon2Params ELSE parsed.params,
                                parsed.salt, password)

\* bcrypt::DEFAULT_COST.
DEFAULT_COST == 12

\* bcrypt hashes at most this many bytes.
BcryptMaxBytes == 72

\* What bcrypt hashes (_hash_password): the password's bytes and a NUL
\* terminator, silently cut to the first 72 bytes.
BcryptInput(password) ==
  SubSeq(Bytes(password) \o <<0>>, 1,
         IF Len(password) + 1 > BcryptMaxBytes THEN BcryptMaxBytes ELSE Len(password) + 1)

\* bcrypt as an ideal hash of the cost, the salt and the bytes it hashes,
\* written as the hexadecimal of its input (a real one is 31 characters).
BcryptDigest(cost, salt, input) == Hex(Bytes(cost \o "$" \o salt) \o input)

\* bcrypt::hash(password, DEFAULT_COST): $2b$12$ and salt and digest.
bcrypt_hash(password, salt) ==
  "$2b$" \o NatToStr(DEFAULT_COST) \o "$" \o salt
    \o BcryptDigest(NatToStr(DEFAULT_COST), salt, BcryptInput(password))

\* The non-empty pieces of a split.
NonEmpty(parts) == SelectSeq(parts, LAMBDA f : f # "")

\* bcrypt::verify on the non-empty parts of the hash split on '$': three
\* parts, a known version, a cost, a 22-character salt and the digest.
\* [kind, valid, err].
bcrypt_verify_parts(password, parts) ==
  IF Len(parts) # 3 THEN [kind |-> "Err", valid |-> FALSE, err |-> "InvalidHash"]
  ELSE IF parts[1] \notin {"2a", "2b", "2x", "2y"}
    THEN [kind |-> "Err", valid |-> FALSE, err |-> "InvalidPrefix"]
  ELSE IF parts[2] = "" \/ ~AllIn(parts[2], Digits)
    THEN [kind |-> "Err", valid |-> FALSE, err |-> "InvalidCost"]
  ELSE IF Len(parts[3]) <= 22
    THEN [kind |-> "Err", valid |-> FALSE, err |-> "InvalidHash"]
  ELSE [kind |-> "Ok",
        valid |-> SubSeq(parts[3], 23, Len(parts[3]))
                    = BcryptDigest(parts[2], SubSeq(parts[3], 1, 22), BcryptInput(password)),
        err |-> ""]

\* bcrypt::verify(password, hash).
bcrypt_verify(password, hash) == bcrypt_verify_parts(password, NonEmpty(Split(hash, "$")))

(***************************************************************************)
(* src/src/password/mod.rs                                                 *)
(***************************************************************************)

PasswordHasherType == {"Argon2", "Bcrypt"}

\* hash_password with the salt the hasher drew: Ok(hash) for both families
\* (neither hasher refuses a password without a NUL byte).
hash_password(password, password_hasher_type, salt) ==
  IF password_hasher_type = "Argon2"
    THEN [kind |-> "Ok", hash |-> argon2_hash_password(password, salt)]
    ELSE [kind |-> "Ok", hash |-> bcrypt_hash(password, salt)]

\* The Argon2 arm of verify_password on the parsed hash: unwrap() panics on
\* the parse error, the outcome of the verification is returned as Ok(bool).
verify_argon2(password, parsed_hash) ==
  IF ~parsed_hash.ok THEN [kind |-> "panic", valid |-> FALSE, err |-> "unwrap"]
  ELSE [kind |-> "Ok", valid |-> Argon2Verifies(password, parsed_hash), err |-> ""]

\* verify_password: [kind, valid, err] with kind Ok, Err or panic.
verify_password(hash, password, password_hasher_type) ==
  IF password_hasher_type = "Argon2"
    THEN verify_argon2(password, PasswordHashNew(hash))
    ELSE bcrypt_verify(password, hash)

\* The characters rand's Alphanumeric samples from (A-Z, a-z, 0-9), as codes.
Alphanumeric == (65..90) \cup (97..122) \cup (48..57)

\* SPECIAL_CHARS, as character codes: !@#$%^&*()_+{}[]:;<>,.?/|~ and the
\* grave accent.
SPECIAL_CHARS ==
  <<33, 64, 35, 36, 37, 94, 38, 42, 40, 41, 95, 43, 123, 125, 91, 93, 58, 59,
    60, 62, 44, 46, 63, 47, 124, 126, 96>>

\* char::to_ascii_lowercase and char::to_ascii_uppercase.
to_ascii_lowercase(c) == IF c \in 65..90 THEN c + 32 ELSE c

to_ascii_uppercase(c) == IF c \in 97..122 THEN c - 32 ELSE c

\* One character of the fill: gen_range(0..3) chose choice, the sample of
\* Alphanumeric is alnum, the index into SPECIAL_CHARS is special.
FillChar(f) ==
  CASE f.choice = 0 -> to_ascii_lowercase(f.alnum)
    [] f.choice = 1 -> to_ascii_uppercase(f.alnum)
    [] OTHER -> SPECIAL_CHARS[f.special + 1]

\* generate_strong_password(n) under the draws d of the random generator:
\* lower and upper (samples of Alphanumeric), digit, special (an index),
\* fill (the n - 4 further characters) and perm (the shuffle). [kind,
\* password], the password as character codes.
generate_strong_password(n, d) ==
  IF n < 4 THEN [kind |-> "panic", password |-> <<>>]
  ELSE Only({[kind |-> "Ok", password |-> [i \in 1..n |-> password[d.perm[i]]]] :
             password \in {<<to_ascii_lowercase(d.lower), to_ascii_uppercase(d.upper),
                             d.digit, SPECIAL_CHARS[d.special + 1]>>
                             \o [k \in 1..(n - 4) |-> FillChar(d.fill[k])]}})

(***************************************************************************)
(* src/src/time/mod.rs                                                     *)
(***************************************************************************)

get_supported_timezones ==
  <<"UTC-12:00", "UTC-11:00", "UTC-10:00", "UTC-09:30", "UTC-09:00", "UTC-08:00",
    "UTC-07:00", "UTC-06:00", "UTC-05:00", "UTC-04:30", "UTC-04:00", "UTC-03:30",
    "UTC-03:00", "UTC-02:00", "UTC-01:00", "UTC+00:00", "UTC+01:00", "UTC+02:00",
    "UTC+03:00", "UTC+03:30", "UTC+04:00", "UTC+04:30", "UTC+05:00", "UTC+05:30",
    "UTC+05:45", "UTC+06:00", "UTC+06:30", "UTC+07:00", "UTC+08:00", "UTC+08:30",
    "UTC+08:45", "UTC+09:00", "UTC+09:30", "UTC+10:00", "UTC+10:30", "UTC+11:00",
    "UTC+11:30", "UTC+12:00", "UTC+12:45", "UTC+13:00", "UTC+14:00">>

\* A validation that falls back to the bare name "UTC".
validate_timezone_bare_fallback(input_offset) ==
  IF \E k \in 1..Len(get_supported_timezones) : get_supported_timezones[k] = input_offset
    THEN input_offset
    ELSE "UTC"

\* validate_timezone: the input when the table holds it, UTC+00:00 otherwise.
validate_timezone(input_offset) ==
  IF \E k \in 1..Len(get_supported_timezones) : get_supported_timezones[k] = input_offset
    THEN input_offset
    ELSE "UTC+00:00"

RECURSIVE DecimalValue(_)
\* The number a string of decimal digits writes.
DecimalValue(s) ==
  IF s = "" THEN 0
  ELSE DecimalValue(SubSeq(s, 1, Len(s) - 1)) * 10 + (IndexOf(Digits, Chr(s, Len(s))) - 1)

\* The digits of a string that may begin with a sign.
Unsigned(s) == IF s # "" /\ Chr(s, 1) \in {"+", "-"} THEN Tail(s) ELSE s

\* str::parse::<i64>().unwrap_or(0): an optional sign and at least one
\* decimal digit, 0 for anything else. (The model holds no number of more
\* than nine digits, so none that overflows an i64.)
ParseI64OrZero(s) ==
  IF Unsigned(s) = "" \/ ~AllIn(Unsigned(s), Digits) THEN 0
  ELSE IF Chr(s, 1) = "-" THEN 0 - DecimalValue(Unsigned(s))
  ELSE DecimalValue(Unsigned(s))

\* A conversion that applies the hours of the offset and drops its minutes.
convert_timezone_hours_only(utc_datetime, destination_timezone) ==
  Only({
    IF Len(offset_parts) # 2 THEN utc_datetime
    ELSE IF Len(offset_parts[1]) # 6 THEN utc_datetime
    ELSE IF Chr(offset_parts[1], 4) \notin {"-", "+"} THEN utc_datetime
    ELSE IF Chr(offset_parts[1], 4) = "-"
      THEN utc_datetime - ParseI64OrZero(SubSeq(offset_parts[1], 5, 6)) * 60
      ELSE utc_datetime + ParseI64OrZero(SubSeq(offset_parts[1], 5, 6)) * 60
    : offset_parts \in {Split(destination_timezone, ":")}})

\* convert_timezone: a datetime is the number of minutes since an epoch.
convert_timezone(utc_datetime, destination_timezone) ==
  Only({
    IF Len(offset_parts) # 2 THEN utc_datetime
    ELSE IF Len(offset_parts[1]) # 6 THEN utc_datetime
    ELSE IF Chr(offset_parts[1], 4) \notin {"-", "+"} THEN utc_datetime
    ELSE Only({
      IF Chr(offset_parts[1], 4) = "-"
        THEN utc_datetime - total_offset_minutes
        ELSE utc_datetime + total_offset_minutes
      : total_offset_minutes \in
          {(ParseI64OrZero(SubSeq(offset_parts[1], 5, 6)) * 60)
             + ParseI64OrZero(offset_parts[2])}})
    : offset_parts \in {Split(destination_timezone, ":")}})

(***************************************************************************)
(* The JWT state machine: a clock, the token issued, the last call         *)
(***************************************************************************)

\* now:      the clock (Utc::now()), in ticks since the epoch
\* advances: how often the clock has been advanced
\* issued:   <<>> or <<r>>, r the arguments and result of the generate_jwt call
\* res:      the last call of the JWT module and what it returned
VARIABLES now, advances, issued, res, stored, pres, gen, tres

jwtVars == <<now, advances, issued, res>>

passwordVars == <<stored, pres>>

generateVars == <<gen>>

timeVars == <<tres>>

\* The longest token lifetime requested, in seconds.
MaxTtl == 2

\* How often the clock is advanced in a behaviour.
MaxAdvances == 3

\* The clock advances by a tick, a second or the validation leeway.
ClockSteps == {1, TicksPerSec, Leeway * TicksPerSec}

\* (user_id, org_id) pairs passed to generate_jwt.
Principals == {[sub |-> 1, org |-> 7], [sub |-> -2, org |-> 0]}

\* Secrets, as their bytes (secret.as_ref()): "k1", "k2", and "k1" followed
\* by U+0000.
Secrets == {<<107, 49>>, <<107, 50>>, <<107, 49, 0>>}

Audiences == {"web", "a\"b"}

SessionIds == {"s1"}

NoRes == [op |-> "none", token |-> "", secret |-> <<>>, audience |-> "", at |-> 0,
          out |-> JwtErr("")]

\* The three segments of a token that has exactly three.
Segment(token, n) == Split(token, ".")[n]

\* A token with another payload segment.
WithPayload(token, payload) ==
  Segment(token, 1) \o "." \o payload \o "." \o Segment(token, 3)

\* What a caller can make of an issued token t without the secret.
DropSignature(t) == Segment(t, 1) \o "." \o Segment(t, 2)

BadSignature(t) == Segment(t, 1) \o "." \o Segment(t, 2) \o ".AAAA"

BadSymbol(t) == WithPayload(t, "*" \o Tail(Segment(t, 2)))

\* The payload cut back to a length of 1 modulo 4, which no padding repairs.
CutPayload(t) ==
  LET p == Segment(t, 2)
      n == CHOOSE k \in (Len(p) - 3)..Len(p) : k % 4 = 1
  IN  WithPayload(t, SubSeq(p, 1, n))

\* The payload replaced by claims of another subject, the signature kept.
ForgedSubject(t, r) ==
  WithPayload(t, B64EncodeNoPad(Bytes(ClaimsToJson(
    [sub |-> r.sub + 100, org |-> r.org, exp |-> Timestamp(r.expires_at),
     suid |-> r.suid, aud |-> r.aud]))))

\* A token the holder of the secret signs over the same claims written
\* another way: members in another order, white space, a member Claims does
\* not have.
Resigned(r) ==
  Only({message \o "." \o Sign(message, r.secret) :
        message \in {Segment(r.token, 1) \o "." \o B64EncodeNoPad(Bytes(
          "{ \"aud\" : " \o JsonString(r.aud) \o ", \"iss\":\"x\",  \"suid\":"
            \o JsonString(r.suid) \o ", \"exp\":" \o NatToStr(Timestamp(r.expires_at))
            \o ", \"org\":" \o IntToStr(r.org) \o ", \"sub\" :" \o IntToStr(r.sub) \o " }"))}})

\* Tokens that are not three segments.
WrongSegmentCount(r) ==
  {"", "garbage", "a.b", "a.b.c.d", DropSignature(r.token), r.token \o ".x"}

\* Three segments, the middle one no base64url even when padded.
NotBase64(r) == {"a.b.c", "x.e30*.y", "x.QR.y", BadSymbol(r.token), CutPayload(r.token)}

\* Three segments, the middle one base64url of bytes that are no UTF-8.
NotUtf8 == {"x._w.y", "x.wyg.y"}

\* Three segments, the middle one base64url of text that is no Claims: no
\* JSON, an empty object, the payload of the example in the documentation of
\* validate_jwt (no org, no suid), a sub that is no i32.
NotClaims ==
  {"x..y", "x.ew.y", "x.e30.y", "x.e30=.y",
   "h.eyJzdWIiOjMsImV4cCI6MTczMjIwMDQ3NywiaXNzIjoiTmV4dCBFcmEgQXV0aGVudGljYWl0b24gU2VydmljZSIsImF1ZCI6Ik5FWFQgRVJBIFVTRVIifQ.s",
   "h." \o B64EncodeNoPad(Bytes("{\"sub\":2147483648,\"org\":1,\"exp\":1,\"suid\":\"s\",\"aud\":\"a\"}")) \o ".s"}

\* The record of a generate_jwt call that never happened, for the tokens
\* that derive from none.
NoIssue ==
  [sub |-> 0, org |-> 0, secret |-> <<>>, ttl |-> 0, suid |-> "", aud |-> "",
   at |-> 0, token |-> "h.p.s", expires_at |-> 0]

Issued == IF issued = <<>> THEN NoIssue ELSE issued[1]

\* The tokens passed to the unverified extraction.
ExtractInputs ==
  WrongSegmentCount(Issued) \cup NotBase64(Issued) \cup NotUtf8 \cup NotClaims
    \cup (IF issued = <<>> THEN {}
          ELSE {Issued.token, BadSignature(Issued.token),
                ForgedSubject(Issued.token, Issued), Resigned(Issued)})

\* The tokens passed to validate_jwt while the clock runs.
ValidateInputs ==
  IF issued = <<>> THEN {"garbage"} ELSE {Issued.token}

\* The tokens passed to validate_jwt beside the unverified extraction.
CrossInputs ==
  IF issued = <<>> THEN {"garbage"}
  ELSE {Issued.token, ForgedSubject(Issued.token, Issued), Resigned(Issued)}

JwtInit ==
  /\ now = 0
  /\ advances = 0
  /\ issued = <<>>
  /\ res = NoRes

\* Time passes.
Tick(d) ==
  /\ advances < MaxAdvances
  /\ now' = now + d
  /\ advances' = advances + 1
  /\ res' = NoRes
  /\ UNCHANGED issued
  /\ UNCHANGED <<passwordVars, generateVars, timeVars>>

\* A call of generate_jwt; the model follows one token, issued within the
\* first second of the clock (on a whole second or off it).
Issue(p, secret, ttl, suid, aud) ==
  /\ issued = <<>>
  /\ now < TicksPerSec
  /\ \E g \in {generate_jwt(p.sub, p.org, secret, ttl, suid, aud, now)} :
       /\ issued' = <<[sub |-> p.sub, org |-> p.org, secret |-> secret,
                       ttl |-> ttl, suid |-> suid, aud |-> aud, at |-> now,
                       token |-> g.token, expires_at |-> g.expires_at]>>
       /\ res' = [op |-> "generate_jwt", token |-> g.token, secret |-> secret,
                  audience |-> aud, at |-> now, out |-> JwtOk(NoClaims)]
  /\ UNCHANGED <<now, advances>>
  /\ UNCHANGED <<passwordVars, generateVars, timeVars>>

\* A call of validate_jwt.
Validate(token, secret, aud) ==
  /\ res' = [op |-> "validate_jwt", token |-> token, secret |-> secret,
             audience |-> aud, at |-> now,
             out |-> validate_jwt(token, secret, aud, now)]
  /\ UNCHANGED <<now, advances, issued>>
  /\ UNCHANGED <<passwordVars, generateVars, timeVars>>

\* A call of get_user_id_from_token.
GetUserId(token) ==
  /\ res' = [op |-> "get_user_id_from_token", token |-> token, secret |-> <<>>,
             audience |-> "", at |-> now, out |-> get_user_id_from_token(token)]
  /\ UNCHANGED <<now, advances, issued>>
  /\ UNCHANGED <<passwordVars, generateVars, timeVars>>

\* A call of get_jwt_claims_from_token.
GetClaims(token) ==
  /\ res' = [op |-> "get_jwt_claims_from_token", token |-> token, secret |-> <<>>,
             audience |-> "", at |-> now, out |-> get_jwt_claims_from_token(token)]
  /\ UNCHANGED <<now, advances, issued>>
  /\ UNCHANGED <<passwordVars, generateVars, timeVars>>

\* The clock passes the expiry of the issued token and the leeway after it.
Expire ==
  /\ issued # <<>>
  /\ now <= Issued.expires_at
  /\ now' = Issued.expires_at + (Leeway + 1) * TicksPerSec
  /\ res' = NoRes
  /\ UNCHANGED <<advances, issued>>
  /\ UNCHANGED <<passwordVars, generateVars, timeVars>>

\* Issuance and validation under a running clock.
JwtNext ==
  \/ \E d \in ClockSteps : Tick(d)
  \/ \E p \in Principals, secret \in Secrets, ttl \in 1..MaxTtl,
        suid \in SessionIds, aud \in Audiences : Issue(p, secret, ttl, suid, aud)
  \/ \E token \in ValidateInputs, secret \in Secrets, aud \in Audiences :
        Validate(token, secret, aud)

\* Unverified extraction beside validation, before and after expiry.
ExtractNext ==
  \/ \E p \in Principals, secret \in Secrets, ttl \in 1..MaxTtl,
        suid \in SessionIds, aud \in Audiences : Issue(p, secret, ttl, suid, aud)
  \/ Expire
  \/ \E token \in CrossInputs, secret \in Secrets, aud \in Audiences :
        Validate(token, secret, aud)
  \/ \E token \in ExtractInputs : GetUserId(token)
  \/ \E token \in ExtractInputs : GetClaims(token)

(***************************************************************************)
(* The password state machine: the hash stored, the last call              *)
(***************************************************************************)

\* The longest password prefix bcrypt tells apart.
LongPrefix == Repeat("a", BcryptMaxBytes)

Passwords == {"Password", "Passwords", "", LongPrefix, LongPrefix \o "x", LongPrefix \o "y"}

\* The salts the hashers draw (22 characters of base64).
Salts == {"c2FsdHNhbHRzYWx0c2FsdA", "AAAAAAAAAAAAAAAAAAAAAA"}

\* Strings that are no hash record of either family, and one that is a PHC
\* string with an algorithm and nothing else.
ForeignHashes == {"not-a-hash", "", "$argon2id", "$2b$12$short"}

NoStored == [password |-> "", family |-> "", hash |-> ""]

Stored == IF stored = <<>> THEN NoStored ELSE stored[1]

NoPres ==
  [op |-> "none", hash |-> "", password |-> "", family |-> "",
   out |-> [kind |-> "", valid |-> FALSE, err |-> ""]]

\* A call of hash_password whose result the caller stores; the model follows
\* one stored hash.
Hash(password, family, salt) ==
  /\ stored = <<>>
  /\ hash_password(password, family, salt).kind = "Ok"
  /\ stored' = <<[password |-> password, family |-> family,
                  hash |-> hash_password(password, family, salt).hash]>>
  /\ pres' = [op |-> "hash_password", hash |-> "", password |-> password,
              family |-> family, out |-> [kind |-> "Ok", valid |-> FALSE, err |-> ""]]
  /\ UNCHANGED <<jwtVars, generateVars, timeVars>>

\* A call of verify_password.
Verify(hash, password, family) ==
  /\ pres' = [op |-> "verify_password", hash |-> hash, password |-> password,
              family |-> family, out |-> verify_password(hash, password, family)]
  /\ UNCHANGED <<stored, jwtVars, generateVars, timeVars>>

\* The hashes passed to verify_password.
VerifyInputs == ForeignHashes \cup (IF stored = <<>> THEN {} ELSE {Stored.hash})

PasswordNext ==
  \/ \E password \in Passwords, family \in PasswordHasherType, salt \in Salts :
        Hash(password, family, salt)
  \/ \E hash \in VerifyInputs, password \in Passwords, family \in PasswordHasherType :
        Verify(hash, password, family)

(***************************************************************************)
(* The password generator: one call and its result                         *)
(***************************************************************************)

\* The longest password asked for.
MaxLength == 5

\* The samples of Alphanumeric drawn: a lowercase letter, an uppercase one
\* and a digit.
AlnumDraws == {c \in Alphanumeric : c \in {97, 90, 55}}

\* The digits drawn by gen_range('0'..='9'): the first and the last.
DigitDraws == {48, 57}

\* The indices drawn by gen_range(0..SPECIAL_CHARS.len()): the first and the
\* last.
SpecialDraws == {0, Len(SPECIAL_CHARS) - 1}

\* The draws of one fill character.
FillDraws ==
  {[choice |-> 0, alnum |-> a, special |-> 0] : a \in AlnumDraws}
    \cup {[choice |-> 1, alnum |-> a, special |-> 0] : a \in AlnumDraws}
    \cup {[choice |-> 2, alnum |-> 97, special |-> i] : i \in SpecialDraws}

\* The draws of a call for n >= 4 characters.
Draws(n) ==
  [lower : AlnumDraws, upper : AlnumDraws, digit : DigitDraws, special : SpecialDraws,
   fill : [1..(n - 4) -> FillDraws], perm : Permutations(1..n)]

\* A call that draws nothing (n < 4).
NoDraws ==
  [lower |-> 97, upper |-> 97, digit |-> 48, special |-> 0, fill |-> <<>>, perm |-> <<>>]

NoGen == [op |-> "none", n |-> 0, out |-> [kind |-> "", password |-> <<>>]]

\* A call of generate_strong_password.
Generate(n, d) ==
  /\ gen = NoGen
  /\ gen' = [op |-> "generate_strong_password", n |-> n,
             out |-> generate_strong_password(n, d)]
  /\ UNCHANGED <<jwtVars, passwordVars, timeVars>>

GenerateNext ==
  \/ \E n \in 0..3 : Generate(n, NoDraws)
  \/ \E n \in 4..MaxLength : \E d \in Draws(n) : Generate(n, d)

(***************************************************************************)
(* The time conversions: the last call                                     *)
(***************************************************************************)

\* Datetimes, in minutes.
Instants == {0, 1000}

\* Offsets outside the table: well-formed ones, and malformed ones of each
\* kind (segment count, length of the first segment, sign, hour, minute).
OtherOffsets ==
  {"", "garbage", "UTC", "UTC+01", "UTC+01:00:00", "UTC+1:00", "UTC+001:00",
   "UTC*01:00", "UTC 01:00", "UTC+ab:30", "UTC+01:xx", "UTC+ab:cd", "UTC+01:",
   "UTC+99:99", "UTC+15:00", "UTC+00:01", "UTC-00:00", "GMT+01:00", "utc+01:00",
   "UTC+01:-30", "UTC++1:00"}

Offsets == {get_supported_timezones[k] : k \in 1..Len(get_supported_timezones)}
             \cup OtherOffsets

NoTres == [op |-> "none", t |-> 0, offset |-> "", out |-> 0, tz |-> ""]

\* A call of convert_timezone.
Convert(t, offset) ==
  /\ tres' = [op |-> "convert_timezone", t |-> t, offset |-> offset,
              out |-> convert_timezone(t, offset), tz |-> ""]
  /\ UNCHANGED <<jwtVars, passwordVars, generateVars>>

\* A call of validate_timezone.
ValidateTimezone(offset) ==
  /\ tres' = [op |-> "validate_timezone", t |-> 0, offset |-> offset,
              out |-> 0, tz |-> validate_timezone(offset)]
  /\ UNCHANGED <<jwtVars, passwordVars, generateVars>>

TimeNext ==
  \/ \E t \in Instants, offset \in Offsets : Convert(t, offset)
  \/ \E offset \in Offsets : ValidateTimezone(offset)

vars == <<now, advances, issued, res, stored, pres, gen, tres>>

Init ==
  /\ JwtInit
  /\ stored = <<>>
  /\ pres = NoPres
  /\ gen = NoGen
  /\ tres = NoTres

Spec == Init /\ [][JwtNext]_vars

SpecExtract == Init /\ [][ExtractNext]_vars

SpecPassword == Init /\ [][PasswordNext]_vars

SpecGenerate == Init /\ [][GenerateNext]_vars

SpecTime == Init /\ [][TimeNext]_vars

(***************************************************************************)
(* Claims about the JWT operations                                         *)
(***************************************************************************)

\* The last call was validate_jwt on the issued token.
ValidatedIssued ==
  /\ issued # <<>>
  /\ res.op = "validate_jwt"
  /\ res.token = Issued.token

\* C1: validate_jwt on the token generate_jwt returned, with the same secret
\* and the same audience and before the token expires, succeeds and returns
\* claims whose sub, org and aud are the values passed to generate_jwt.
C1_RoundTrip ==
  (/\ ValidatedIssued
   /\ res.secret = Issued.secret
   /\ res.audience = Issued.aud
   /\ res.at < Issued.expires_at)
  => /\ res.out.ok
     /\ res.out.claims.sub = Issued.sub
     /\ res.out.claims.org = Issued.org
     /\ res.out.claims.aud = Issued.aud

\* C1 is reached: a token for a negative subject and an audience that needs
\* escaping, validated after the clock has moved and before expiry.
C1_Witness ==
  /\ ValidatedIssued
  /\ res.secret = Issued.secret
  /\ res.audience = Issued.aud
  /\ Issued.at < res.at /\ res.at < Issued.expires_at
  /\ Issued.sub < 0 /\ Issued.aud = "a\"b"
  /\ res.out.ok
  /\ res.out.claims.sub = Issued.sub

\* The secret as HMAC pads it: its bytes followed by zero bytes up to the
\* 64-byte block.
PaddedSecret(secret) == [i \in 1..64 |-> IF i <= Len(secret) THEN secret[i] ELSE 0]

Extracted == res.op \in {"get_user_id_from_token", "get_jwt_claims_from_token"}

\* What an extraction returns for a payload that carries claims c: the
\* subject alone, or the claims.
Carried(c) ==
  IF res.op = "get_user_id_from_token" THEN [NoClaims EXCEPT !.sub = c.sub] ELSE c

\* The claims generate_jwt put in the issued token.
IssuedClaims ==
  [sub |-> Issued.sub, org |-> Issued.org, exp |-> Issued.expires_at \div TicksPerSec,
   suid |-> Issued.suid, aud |-> Issued.aud]

DotCount(token) == Cardinality({i \in 1..Len(token) : SubSeq(token, i, i) = "."})

\* C5: the extractions return an error value, and no claims, for every token
\* that does not split on '.' into exactly three parts and for every token
\* whose middle segment, padded, is not base64url, not UTF-8, or not a JSON
\* Claims; the error names the step that failed.
C5_MalformedIsError ==
  Extracted =>
    /\ DotCount(res.token) # 2
         => (~res.out.ok /\ res.out.claims = NoClaims
             /\ res.out.err = "Invalid token format")
    /\ res.token \in NotBase64(Issued)
         => (~res.out.ok /\ res.out.claims = NoClaims
             /\ res.out.err = "Base64 decoding failed")
    /\ res.token \in NotUtf8
         => (~res.out.ok /\ res.out.claims = NoClaims
             /\ res.out.err = "Invalid UTF-8 in payload")
    /\ res.token \in NotClaims
         => (~res.out.ok /\ res.out.claims = NoClaims
             /\ res.out.err = "Failed to deserialize claims")

\* C5 is reached: an issued token whose payload was cut to a length no
\* padding repairs.
C5_Witness ==
  /\ issued # <<>>
  /\ res.op = "get_user_id_from_token"
  /\ res.token = CutPayload(Issued.token)
  /\ ~res.out.ok
  /\ res.out.err = "Base64 decoding failed"

(***************************************************************************)
(* Claims about the password operations                                    *)
(***************************************************************************)

\* The last call was verify_password on the stored hash, with the family
\* that made it.
VerifiedStored ==
  /\ stored # <<>>
  /\ pres.op = "verify_password"
  /\ pres.hash = Stored.hash
  /\ pres.family = Stored.family

\* C6: for both families, verify_password on the hash of p returns Ok(true)
\* for p and Ok(false) for every other password.
C6_RoundTrip ==
  VerifiedStored =>
    /\ pres.out.kind = "Ok"
    /\ pres.out.valid <=> (pres.password = Stored.password)

\* C7: verify_password reports every failure as a value: Ok(false) on a
\* mismatch, an Err on a string that is no hash record, never a panic.
C7_FailuresAreValues ==
  pres.op = "verify_password" =>
    /\ pres.out.kind \in {"Ok", "Err"}
    /\ pres.hash \in {"not-a-hash", ""} => pres.out.kind = "Err"

(***************************************************************************)
(* Claims about the password generator                                     *)
(***************************************************************************)

\* The password holds a character of the class.
HasCharIn(password, class) == \E i \in 1..Len(password) : password[i] \in class

\* C8: for n >= 4 the result has exactly n characters, among them a
\* lowercase letter, an uppercase letter, a digit and a character of
\* SPECIAL_CHARS, whatever the draws; for n < 4 the call panics.
C8_LengthAndClasses ==
  gen.op = "generate_strong_password" =>
    IF gen.n < 4 THEN gen.out.kind = "panic"
    ELSE /\ gen.out.kind = "Ok"
         /\ Len(gen.out.password) = gen.n
         /\ HasCharIn(gen.out.password, 97..122)
         /\ HasCharIn(gen.out.password, 65..90)
         /\ HasCharIn(gen.out.password, 48..57)
         /\ HasCharIn(gen.out.password, {SPECIAL_CHARS[k] : k \in 1..Len(SPECIAL_CHARS)})

(***************************************************************************)
(* Claims about the time conversions                                       *)
(***************************************************************************)

\* The characters a..b of a text, none when there are no such characters.
Sub(s, a, b) == IF a > b \/ a < 1 \/ b > Len(s) THEN "" ELSE SubSeq(s, a, b)

\* Whether a text is a number: decimal digits after an optional sign.
NumericText(s) ==
  LET body == IF Sub(s, 1, 1) \in {"+", "-"} THEN Sub(s, 2, Len(s)) ELSE s
  IN  body # "" /\ \A i \in 1..Len(body) : \E k \in 1..10 : Sub(body, i, i) = Sub(Digits, k, k)

\* Whether an offset is malformed the way C9 lists: it does not split on ':'
\* into two segments, its sign position holds neither '+' nor '-', or its
\* hour part (the two characters after the sign) or its minute part (the
\* second segment) is not a number.
MalformedOffset(offset) ==
  LET colons == {i \in 1..Len(offset) : Sub(offset, i, i) = ":"}
      colon == CHOOSE i \in colons : TRUE
  IN  \/ Cardinality(colons) # 1
      \/ Sub(offset, 4, 4) \notin {"+", "-"}
      \/ ~NumericText(Sub(offset, 5, colon - 1))
      \/ ~NumericText(Sub(offset, colon + 1, Len(offset)))

\* C9: convert_timezone returns the input datetime for every malformed
\* offset.
C9_MalformedUnchanged ==
  (tres.op = "convert_timezone" /\ MalformedOffset(tres.offset)) => tres.out = tres.t

\* C10: convert_timezone returns the input datetime for every offset that is
\* not in the table of get_supported_timezones.
C10_UnsupportedUnchanged ==
  (/\ tres.op = "convert_timezone"
   /\ \A k \in 1..Len(get_supported_timezones) : get_supported_timezones[k] # tres.offset)
  => tres.out = tres.t

\* Whether an offset is an entry of the table of get_supported_timezones.
Supported(offset) ==
  \E k \in 1..Len(get_supported_timezones) : get_supported_timezones[k] = offset

\* The minutes an entry "UTC+HH:MM" or "UTC-HH:MM" of the table stands for,
\* read digit by digit: HH * 60 + MM, negative after '-'.
TableMinutes(offset) ==
  LET digit(i) == (CHOOSE k \in 1..10 : Sub(Digits, k, k) = Sub(offset, i, i)) - 1
      minutes == (digit(5) * 10 + digit(6)) * 60 + digit(8) * 10 + digit(9)
  IN  IF Sub(offset, 4, 4) = "-" THEN 0 - minutes ELSE minutes

\* C11: for every offset "UTC+HH:MM" (resp. "UTC-HH:MM") of the table and
\* every datetime t, convert_timezone returns t plus (resp. minus) HH*60+MM
\* minutes; "UTC+01:00" gives t + 1 hour, and the result differs from t for
\* every entry of the table other than "UTC+00:00".
C11_TableOffsetsShift ==
  (tres.op = "convert_timezone" /\ Supported(tres.offset))
  => /\ tres.out = tres.t + TableMinutes(tres.offset)
     /\ tres.offset = "UTC+01:00" => tres.out = tres.t + 60
     /\ tres.offset # "UTC+00:00" => tres.out # tres.t

\* A conversion to an entry of the table with minutes, west of Greenwich.
C11_Witness ==
  /\ tres.op = "convert_timezone"
  /\ tres.offset = "UTC-09:30"
  /\ Supported(tres.offset)
  /\ tres.t = 1000
  /\ tres.out = 430

\* C12: validate_timezone returns its input when the input is an entry of the
\* table of get_supported_timezones and "UTC+00:00" for every other string;
\* so its result is always an entry of the table, and validating the result
\* again returns the result.
C12_ValidateTimezone ==
  tres.op = "validate_timezone"
  => /\ Supported(tres.offset) => tres.tz = tres.offset
     /\ ~Supported(tres.offset) => tres.tz = "UTC+00:00"
     /\ Supported(tres.tz)
     /\ validate_timezone(tres.tz) = tres.tz

\* A validation of a well-formed offset that the table does not hold.
C12_Witness ==
  /\ tres.op = "validate_timezone"
  /\ tres.offset = "UTC+99:99"
  /\ ~Supported(tres.offset)
  /\ tres.tz = "UTC+00:00"

(***************************************************************************)
(* Claims about the expiry generate_jwt returns                            *)
(***************************************************************************)

\* The claims the payload of the token just generated holds.
GeneratedClaims == get_jwt_claims_from_token(res.token)

\* C13: generate_jwt with a positive lifetime returns expires_at = the clock
\* reading at the call plus the lifetime, and the exp claim of the token it
\* returns is that expires_at cut to whole seconds since the epoch, so the
\* two differ by less than one second.
C13_ExpiryAgrees ==
  (res.op = "generate_jwt" /\ Issued.ttl > 0)
  => \A c \in {GeneratedClaims} :
       /\ Issued.expires_at = res.at + Issued.ttl * TicksPerSec
       /\ c.ok
       /\ c.claims.exp = Issued.expires_at \div TicksPerSec
       /\ c.claims.exp * TicksPerSec <= Issued.expires_at
       /\ Issued.expires_at < (c.claims.exp + 1) * TicksPerSec

\* A token generated off a whole second: exp lies below expires_at.
C13_Witness ==
  /\ res.op = "generate_jwt"
  /\ Issued.ttl > 0
  /\ res.at % TicksPerSec # 0
  /\ GeneratedClaims.ok
  /\ GeneratedClaims.claims.exp * TicksPerSec < Issued.expires_at

(***************************************************************************)
(* Claims about the unverified and the verified path together              *)
(***************************************************************************)

====
